---- MODULE Spec2Model ----
(***************************************************************************)
(* Model of the terrain generator of src/index.js: the Terrain / Chunk /   *)
(* Noise classes, the dat.GUI controls that edit CONFIG, and the animate   *)
(* loop that rebuilds the terrain when CONFIG changes.                     *)
(*                                                                         *)
(* Numbers.  The code computes with IEEE doubles.  The model keeps raw     *)
(* fractal heights as integers counted in units of 1/(2*NoiseLevels) and   *)
(* normalized heights as exact fractions [n, d] in lowest terms; 0/0 is    *)
(* NaN and x/0 (x > 0) is Infinity, as in JavaScript.                      *)
(***************************************************************************)
EXTENDS Integers, Sequences, FiniteSets, TLC

VARIABLES
  CONFIG,     \* the module-level CONFIG object the GUI edits in place
  terrain,    \* window.terrain: the fields of the Terrain object
  chunks,     \* window.terrain.chunks
  scene,      \* the chunk meshes held by the THREE.Scene
  libSeed,    \* the seed of the global `noise` library object
  pc,         \* "create": a Terrain was constructed, create() is the next statement; "loop": idle between events
  thrown,     \* TRUE when the last handler ended by an uncaught exception
  calls,      \* the Terrain methods the last handler called, in order (animate calls hash() first)
  startMin,   \* terrain.minHeight when the latest create() started
  startMax,   \* terrain.maxHeight when the latest create() started
  sample,     \* a normalized height handed to the colour choice of the mesh builders
  bands,      \* the bands chosen for `sample` ("none" before the choice)
  islandSize, \* the argument of a createIslandShapeGrid call
  islandGrid, \* the cells that call has stored so far, in loop order (i outer, j inner)
  cell,       \* a configuration, a chunk and a cell index handed to the coordinate computation of #getHeight
  coord       \* the coordinate computed for `cell` (NoCoord before)

appVars == <<CONFIG, terrain, chunks, scene, libSeed, pc, thrown, calls,
             startMin, startMax>>
bandVars == <<sample, bands>>
auxVars == <<islandSize, islandGrid, cell, coord>>
vars == <<appVars, bandVars, auxVars>>

----------------------------------------------------------------------------
(* Bounds of the model *)

MaxSize == 2          \* largest `size` explored (the GUI allows 1..5)
MaxSeed == 1          \* seeds 0..MaxSeed (the code draws from 0..99999)
NoiseLevels == 3      \* the noise stand-in takes the values k/NoiseLevels, k \in -NoiseLevels..NoiseLevels
NoiseCells == 64      \* lattice cells per unit length of the noise stand-in
MaxDen == 20          \* largest denominator of the heights handed to the colour choice
MaxIsland == 7        \* largest createIslandShapeGrid argument explored

(* Program constants.  2^53 - 1 does not fit TLC's integers; the code only *)
(* ever compares the two sentinels with raw heights, which all lie         *)
(* strictly between them, so the model uses the extreme TLC integers.      *)
MAX_SAFE_INTEGER == 2147483647
MIN_SAFE_INTEGER == -2147483647

----------------------------------------------------------------------------
(* Arithmetic helpers *)

Min2(a, b) == IF a < b THEN a ELSE b
Max2(a, b) == IF a > b THEN a ELSE b
Abs(a) == IF a < 0 THEN -a ELSE a

RECURSIVE GCD(_, _)
GCD(a, b) == IF b = 0 THEN a ELSE GCD(b, a % b)

NaN == [n |-> 0, d |-> 0]
Infinity == [n |-> 1, d |-> 0]
NegInfinity == [n |-> -1, d |-> 0]

\* JavaScript's n / d on numbers, the quotient kept as an exact fraction.
Div(n, d) ==
  IF d = 0
    THEN IF n = 0 THEN NaN ELSE IF n > 0 THEN Infinity ELSE NegInfinity
    ELSE LET g == GCD(Abs(n), Abs(d))
             s == IF d < 0 THEN -1 ELSE 1
         IN  [n |-> s * (n \div g), d |-> s * (d \div g)]

\* Math.floor(a / b) for a >= 0, b > 0.
FloorDiv(a, b) == a \div b

IsNaN(h) == h.d = 0 /\ h.n = 0
IsFinite(h) == h.d > 0
\* h < p/q as JavaScript compares numbers (every comparison with NaN is false).
Less(h, p, q) ==
  IF h.d = 0 THEN h.n < 0 ELSE h.n * q < p * h.d
InUnit(h) == IsFinite(h) /\ 0 <= h.n /\ h.n <= h.d

----------------------------------------------------------------------------
(* Utils *)

inverseLerp(min, max, value) ==
  LET v == Max2(min, Min2(max, value))
  IN  Div(v - min, max - min)

----------------------------------------------------------------------------
(* Noise *)

Seeds == 0..MaxSeed

\* Stand-in for the library call noise.simplex2(x, z) under the library's
\* current seed: a fixed function of (seed, x, z) with values in [-1, 1],
\* returned in units of 1/NoiseLevels.  x and z are the fractions px/den
\* and pz/den.
Simplex2(seed, px, pz, den) ==
  LET qx == (px * NoiseCells) \div den
      qz == (pz * NoiseCells) \div den
      k  == ((seed + 1) * (qx * 31 + qz * 17 + 7) + qx * qz) % (2 * NoiseLevels + 1)
  IN  k - NoiseLevels

\* Noise.get: (value + 1) / 2, in units of 1/(2*NoiseLevels).
NoiseGet(seed, px, pz, den) == Simplex2(seed, px, pz, den) + NoiseLevels

----------------------------------------------------------------------------
(* Configuration *)

CONFIG_KEYS == <<"size", "chunkSize", "resolution", "octaves", "persistance",
                 "lacunarity", "heightMultiplier", "islands", "wireframe">>

\* The values the GUI controllers allow (min, max, step).
UISizes == 1..5
UIResolutions == {2 * k : k \in 1..16}
UIChunkSizes == {128 * k : k \in 1..16}
UIOctaves == 1..10

\* The part of them the model explores.
Sizes == {s \in UISizes : s <= MaxSize}
ChunkSizes == {128}
Resolutions == {26}
Octaves == {1, 2}
Persistances == {1}
Lacunarities == {2}

Configs ==
  [size : Sizes, chunkSize : ChunkSizes, resolution : Resolutions,
   octaves : Octaves, persistance : Persistances, lacunarity : Lacunarities,
   heightMultiplier : {250}, islands : BOOLEAN, wireframe : {FALSE}]

\* JSON.stringify of an object: its keys in insertion order with their values.
Stringify(keys, obj) == [i \in 1..Len(keys) |-> <<keys[i], obj[keys[i]]>>]

----------------------------------------------------------------------------
(* Terrain *)

\* new Terrain({ ...config, scene }); the Noise constructor draws the seed.
NewTerrain(config, seed) ==
  [size |-> config.size, chunkSize |-> config.chunkSize,
   resolution |-> config.resolution, octaves |-> config.octaves,
   persistance |-> config.persistance, lacunarity |-> config.lacunarity,
   heightMultiplier |-> config.heightMultiplier, islands |-> config.islands,
   wireframe |-> config.wireframe,
   minHeight |-> MAX_SAFE_INTEGER, maxHeight |-> MIN_SAFE_INTEGER,
   seed |-> seed]

\* Terrain.update without the assignment of this.octaves.
UpdateWithoutOctaves(t, config) ==
  [t EXCEPT !.size = config.size, !.chunkSize = config.chunkSize,
            !.resolution = config.resolution,
            !.persistance = config.persistance, !.lacunarity = config.lacunarity,
            !.heightMultiplier = config.heightMultiplier,
            !.islands = config.islands, !.wireframe = config.wireframe]

\* Terrain.update
Update(t, config) ==
  [t EXCEPT !.size = config.size, !.chunkSize = config.chunkSize,
            !.resolution = config.resolution, !.octaves = config.octaves,
            !.persistance = config.persistance, !.lacunarity = config.lacunarity,
            !.heightMultiplier = config.heightMultiplier,
            !.islands = config.islands, !.wireframe = config.wireframe]

\* Terrain.hash
Hash(t) ==
  Stringify(<<"size", "chunkSize", "resolution", "octaves", "persistance",
              "lacunarity", "heightMultiplier", "islands", "wireframe">>, t)

\* Math.floor(chunkSize / resolution), for resolution > 0
GridSize(chunkSize, resolution) == FloorDiv(chunkSize, resolution)

\* The numerator of noisePosition.x (its denominator is terrainWidth).
SampleCoord(t, x, offsetX) == x * GridSize(t.chunkSize, t.resolution) + offsetX

\* The octave loop of #getHeight: the raw fractal height, in units of
\* 1/(2*NoiseLevels).
RECURSIVE Fractal(_, _, _, _, _, _, _)
Fractal(t, seed, px, pz, i, amplitude, frequency) ==
  IF i >= t.octaves THEN 0
  ELSE NoiseGet(seed, px * frequency, pz * frequency, t.size * t.chunkSize) * amplitude
       + Fractal(t, seed, px, pz, i + 1, amplitude * t.persistance,
                 frequency * t.lacunarity)

RawHeight(t, seed, x, z, offset) ==
  Fractal(t, seed, SampleCoord(t, x, offset.x), SampleCoord(t, z, offset.z), 0, 1, 1)

\* Terrain.#getHeight: the returned height and the Terrain after the call.
\* Terrain.#getHeight with this.minHeight assigned without the comparison.
GetHeightMinUnguarded(t, seed, x, z, offset) ==
  LET noiseHeight == RawHeight(t, seed, x, z, offset)
      max == IF noiseHeight > t.maxHeight THEN noiseHeight ELSE t.maxHeight
  IN  [height |-> inverseLerp(noiseHeight, max, noiseHeight),
       t |-> [t EXCEPT !.minHeight = noiseHeight, !.maxHeight = max]]

GetHeight(t, seed, x, z, offset) ==
  LET noiseHeight == RawHeight(t, seed, x, z, offset)
      min == IF noiseHeight < t.minHeight THEN noiseHeight ELSE t.minHeight
      max == IF noiseHeight > t.maxHeight THEN noiseHeight ELSE t.maxHeight
  IN  [height |-> inverseLerp(min, max, noiseHeight),
       t |-> [t EXCEPT !.minHeight = min, !.maxHeight = max]]

----------------------------------------------------------------------------
(* Chunk *)

\* createEmptyMatrix(gridSize) raises RangeError when gridSize is Infinity
\* (chunkSize / 0): Array.from({ length: Infinity }) is an invalid length.
CreateEmptyMatrixThrows(chunkSize, resolution) == resolution = 0 /\ chunkSize > 0

\* The two loops of Chunk.#createGrid from cell number k on (z = k \div g is
\* the outer loop, x = k % g the inner one): the heights in call order and
\* the Terrain after the last call.
RECURSIVE GridLoop(_, _, _, _, _, _)
GridLoop(t, seed, offset, g, k, cells) ==
  IF k >= g * g THEN [cells |-> cells, t |-> t]
  ELSE LET r == GetHeight(t, seed, k % g, k \div g, offset)
       IN  GridLoop(r.t, seed, offset, g, k + 1, Append(cells, r.height))

\* Chunk.#createGrid: grid[z][x], rows and columns numbered from 1 here.
CreateGrid(t, seed, offset) ==
  LET g == GridSize(t.chunkSize, t.resolution)
      r == GridLoop(t, seed, offset, g, 0, <<>>)
  IN  [grid |-> [z \in 1..g |-> [x \in 1..g |-> r.cells[(z - 1) * g + x]]],
       t |-> r.t]

\* The colour chosen in Chunk.#createMesh, with the first threshold closed
\* above (height <= .45 is water).
ChunkBandClosedAbove(height) ==
  IF ~Less([n |-> 45, d |-> 100], height.n, height.d) /\ height.d > 0 THEN "water"
  ELSE IF Less(height, 5, 10) THEN "sand"
  ELSE IF Less(height, 7, 10) THEN "grass"
  ELSE IF Less(height, 9, 10) THEN "rock"
  ELSE "snow"

\* The colour chosen in Chunk.#createMesh.
ChunkBand(height) ==
  IF Less(height, 45, 100) THEN "water"
  ELSE IF Less(height, 5, 10) THEN "sand"
  ELSE IF Less(height, 7, 10) THEN "grass"
  ELSE IF Less(height, 9, 10) THEN "rock"
  ELSE "snow"

\* The colour chosen in MapGenerator.#createMesh.
MapBand(height) ==
  IF Less(height, 45, 100) THEN "water"
  ELSE IF Less(height, 5, 10) THEN "sand"
  ELSE IF Less(height, 7, 10) THEN "grass"
  ELSE IF Less(height, 9, 10) THEN "rock"
  ELSE "snow"

NoBands == [chunk |-> "none", map |-> "none"]

\* Chunk.#createMesh: a new Mesh object (id), positioned at the offset, with
\* one colour per cell.
CreateMesh(id, offset, grid) ==
  [id |-> id, position |-> offset,
   colors |-> [z \in DOMAIN grid |-> [x \in DOMAIN grid[z] |-> ChunkBand(grid[z][x])]]]

\* new Chunk({...}): the chunk and the Terrain after its grid was sampled.
NewChunk(t, seed, offset, id) ==
  LET r == CreateGrid(t, seed, offset)
  IN  [chunk |-> [size |-> t.chunkSize, offset |-> offset,
                  resolution |-> t.resolution,
                  heightMultiplier |-> t.heightMultiplier,
                  islands |-> t.islands, wireframe |-> t.wireframe,
                  grid |-> r.grid, mesh |-> CreateMesh(id, offset, r.grid)],
       t |-> r.t]

----------------------------------------------------------------------------
(* Terrain.create / destroy *)

MeshIds(chks) == {chks[i].mesh.id : i \in DOMAIN chks}

\* Identity of the Mesh allocated for chunk number i of a build: <<b, i>>
\* with the least b that no mesh referenced when the running handler
\* started carries, so a new mesh is never taken for an old one.
FreshId(used, i) ==
  <<CHOOSE b \in 0..Cardinality(used) :
      /\ \A id \in used : id[1] # b
      /\ \A a \in 0..(b - 1) : \E id \in used : id[1] = a,
    i>>

\* The offset with the two loop indices exchanged.
ChunkOffsetSwapped(t, z, x) == [z |-> x * t.chunkSize, x |-> z * t.chunkSize]

\* The offset of the chunk built in iteration (z, x) of Terrain.#create.
ChunkOffset(t, z, x) == [z |-> z * t.chunkSize, x |-> x * t.chunkSize]

\* Terrain.#addChunk without this.scene.add(chunk.mesh).
AddChunkWithoutScene(st, chunk) == [st EXCEPT !.chunks = Append(st.chunks, chunk)]

\* Terrain.#addChunk
AddChunk(st, chunk) ==
  [st EXCEPT !.chunks = Append(st.chunks, chunk),
             !.scene = st.scene \cup {chunk.mesh.id}]

\* The two loops of Terrain.#create from iteration i on (z = i \div size is
\* the outer loop, x = i % size the inner one).  st = [t, chunks, scene,
\* thrown, used].
RECURSIVE CreateLoop(_, _, _)
CreateLoop(st, seed, i) ==
  IF i >= st.t.size * st.t.size THEN st
  ELSE IF CreateEmptyMatrixThrows(st.t.chunkSize, st.t.resolution)
    THEN [st EXCEPT !.thrown = TRUE]
  ELSE LET r == NewChunk(st.t, seed, ChunkOffset(st.t, i \div st.t.size, i % st.t.size),
                         FreshId(st.used, i))
       IN  CreateLoop(AddChunk([st EXCEPT !.t = r.t], r.chunk), seed, i + 1)

\* Terrain.create
Create(st, seed) == CreateLoop(st, seed, 0)

\* Terrain.destroy without the scene.remove of each chunk's mesh.
DestroyKeepsMeshes(st) == [st EXCEPT !.chunks = <<>>]

\* Terrain.destroy
Destroy(st) ==
  [st EXCEPT !.scene = st.scene \ MeshIds(st.chunks), !.chunks = <<>>]

Grids(chks) == [i \in DOMAIN chks |-> chks[i].grid]

----------------------------------------------------------------------------
(* createIslandShapeGrid *)

\* evaluate(value) for value = m/n: value^3 / (value^3 + (b - b*value)^3)
\* with a = 3 and b = 2.2 = 11/5, as an exact fraction.
IslandEvaluate(m, n) ==
  Div(125 * m * m * m, 125 * m * m * m + 1331 * (n - m) * (n - m) * (n - m))

RECURSIVE Pow2(_)
Pow2(k) == IF k = 0 THEN 1 ELSE 2 * Pow2(k - 1)

\* The s >= 1 with 2^-s <= i/n < 2^(1-s), for 0 < i < n: the double i/n has
\* the binary exponent -s.
RECURSIVE BinaryExponent(_, _, _)
BinaryExponent(i, n, s) ==
  IF i * Pow2(s) >= n THEN s ELSE BinaryExponent(i, n, s + 1)

\* t more bits of the binary expansion of rem/n: the quotient modulo
\* `modulus` and the remainder (0 <= rem < n and 0 <= quo < modulus at
\* every step).
RECURSIVE LongDivision(_, _, _, _, _)
LongDivision(rem, quo, n, t, modulus) ==
  IF t = 0 \/ rem >= n \/ quo >= modulus THEN [quo |-> quo, rem |-> rem]
  ELSE LET bit == IF 2 * rem >= n THEN 1 ELSE 0
       IN  LongDivision(2 * rem - n * bit, (2 * quo + bit) % modulus, n, t - 1, modulus)

\* a / 2^k with a odd or k = 0 (a = 0 gives 0 / 2^0).
RECURSIVE Normalize(_, _)
Normalize(a, k) ==
  IF a = 0 THEN [a |-> 0, k |-> 0]
  ELSE IF k > 0 /\ a % 2 = 0 THEN Normalize(a \div 2, k - 1)
  ELSE [a |-> a, k |-> k]

\* The double x = i / size * 2 - 1, as [m, a, k] with
\*   x = m/size + a / (size * 2^(52+k)),
\* m/size the exact value and the second term the rounding error of the
\* double arithmetic (53-bit significands, round to nearest even):
\*  - i / size is rounded to 53 significant bits (no tie arises: a tie
\*    would make i/size a dyadic number, which is exact);
\*  - the product by 2 is exact;
\*  - the subtraction of 1 is exact when i/size >= 1/4 and is rounded to a
\*    multiple of 2^-53 otherwise (the result lies in (-1, -1/2)).
IslandCoord(size, i) ==
  IF i = 0 THEN [m |-> -size, a |-> 0, k |-> 0]
  ELSE LET s == BinaryExponent(i, size, 1)
           lost == Max2(s - 2, 0)
           q == LongDivision(i, 0, size, 52 + s, Pow2(lost + 1))
           up == IF 2 * q.rem > size THEN 1 ELSE 0
           c == IF q.rem = 0 THEN 0 ELSE IF up = 1 THEN size - q.rem ELSE -q.rem
           M == (q.quo + up) % Pow2(lost + 1)
           L == M % Pow2(lost)
           rho == IF lost = 0 THEN 0
                  ELSE IF 2 * L > Pow2(lost)
                          \/ (2 * L = Pow2(lost) /\ M \div Pow2(lost) = 1)
                    THEN Pow2(lost) - L
                  ELSE -L
           e == Normalize(c + rho * size, s - 1)
       IN  [m |-> 2 * i - size, a |-> e.a, k |-> e.k]

\* Math.abs of such a double
AbsCoord(x) == IF x.m < 0 THEN [m |-> -x.m, a |-> -x.a, k |-> x.k] ELSE x

\* x <= y for two such doubles of the same size (the rounding errors are
\* below 1/size, so they decide only between equal exact values).
CoordLeq(x, y) ==
  IF x.m # y.m THEN x.m < y.m
  ELSE LET K == Max2(x.k, y.k)
       IN  x.a * Pow2(K - x.k) <= y.a * Pow2(K - y.k)

\* value = Math.max(Math.abs(x), Math.abs(y)) for x = i/size*2 - 1,
\* y = j/size*2 - 1
IslandDistance(size, i, j) ==
  LET x == AbsCoord(IslandCoord(size, i))
      y == AbsCoord(IslandCoord(size, j))
  IN  IF CoordLeq(x, y) THEN y ELSE x

\* grid[i][j] of createIslandShapeGrid(size); MapGenerator.#createFalloffMap
\* is the same code with size = this.rows.  The cell is evaluate(value),
\* held as [n, d, a, k]: n/d is evaluate of the exact part of value and
\* a, k the rounding error of value; for the sizes explored evaluate maps
\* different doubles to different doubles in the same order, so two cells
\* hold the same double exactly when the four fields agree.
IslandCell(size, i, j) ==
  LET value == IslandDistance(size, i, j)
      f == IslandEvaluate(value.m, size)
  IN  [n |-> f.n, d |-> f.d, a |-> value.a, k |-> value.k]

NoCell == [size |-> 0, chunkSize |-> 0, resolution |-> 0, column |-> 0, x |-> 0]
NoCoord == -1

\* The value of the variables of the function-level specifications while
\* the program runs.
AuxIdle ==
  /\ islandSize = 0
  /\ islandGrid = <<>>
  /\ cell = NoCell
  /\ coord = NoCoord

----------------------------------------------------------------------------
(* The program *)

State == [t |-> terrain, chunks |-> chunks, scene |-> scene, thrown |-> FALSE,
          used |-> scene \cup MeshIds(chunks)]

Install(st) ==
  /\ terrain' = st.t
  /\ chunks' = st.chunks
  /\ scene' = st.scene
  /\ thrown' = st.thrown

\* After `window.terrain = new Terrain({ ...CONFIG, scene })` in main():
\* the Terrain holds the sentinels and no chunk, create() is the next
\* statement.  DEFAULT_CONFIG (3x3 chunks of 23x23 cells, 6 octaves) is
\* replaced by any configuration the model explores: the program is in the
\* same state, for each of them, inside 'Generate new seed' after its
\* `new Terrain({ ...this.config, scene })`.
Init ==
  /\ CONFIG \in Configs
  /\ libSeed \in Seeds
  /\ terrain = NewTerrain(CONFIG, libSeed)
  /\ chunks = <<>>
  /\ scene = {}
  /\ pc = "create"
  /\ thrown = FALSE
  /\ calls = <<>>
  /\ startMin = MAX_SAFE_INTEGER
  /\ startMax = MIN_SAFE_INTEGER
  /\ sample = NaN
  /\ bands = NoBands
  /\ AuxIdle

\* main(): window.terrain.create(), then the first animate() call is made.
MainCreate ==
  /\ pc = "create"
  /\ LET st == Create(State, libSeed) IN Install(st)
  /\ startMin' = terrain.minHeight
  /\ startMax' = terrain.maxHeight
  /\ calls' = <<"create">>
  /\ pc' = "loop"
  /\ UNCHANGED <<CONFIG, libSeed, bandVars, auxVars>>

\* One animate() tick.
Animate ==
  /\ pc = "loop"
  /\ IF Hash(terrain) # Stringify(CONFIG_KEYS, CONFIG)
       THEN /\ LET st == Create([Destroy(State) EXCEPT !.t = Update(terrain, CONFIG)],
                                libSeed)
               IN  Install(st)
            /\ startMin' = terrain.minHeight
            /\ startMax' = terrain.maxHeight
            /\ calls' = <<"hash", "destroy", "update", "create">>
       ELSE /\ calls' = <<"hash">>
            /\ thrown' = FALSE
            /\ UNCHANGED <<terrain, chunks, scene, startMin, startMax>>
  /\ UNCHANGED <<CONFIG, libSeed, pc, bandVars, auxVars>>

\* The values the controller of `key` can write (dat.GUI keeps a value
\* inside the controller's range).
KeyValues(key) ==
  CASE key = "size" -> Sizes
    [] key = "chunkSize" -> ChunkSizes
    [] key = "resolution" -> Resolutions
    [] key = "octaves" -> Octaves
    [] key = "persistance" -> Persistances
    [] key = "lacunarity" -> Lacunarities
    [] key = "heightMultiplier" -> {250}
    [] key = "islands" -> BOOLEAN
    [] key = "wireframe" -> {FALSE}

\* A GUI controller writes one field of CONFIG.
GuiSet(key, value) ==
  /\ pc = "loop"
  /\ CONFIG[key] # value
  /\ CONFIG' = [CONFIG EXCEPT ![key] = value]
  /\ calls' = <<>>
  /\ thrown' = FALSE
  /\ UNCHANGED <<terrain, chunks, scene, libSeed, pc, startMin, startMax,
                 bandVars, auxVars>>

Gui == \E i \in DOMAIN CONFIG_KEYS : \E v \in KeyValues(CONFIG_KEYS[i]) : GuiSet(CONFIG_KEYS[i], v)

\* The 'Generate new seed' button.
GenerateNewSeed ==
  /\ pc = "loop"
  /\ \E seed \in Seeds :
       /\ libSeed' = seed
       /\ LET st == Create([Destroy(State) EXCEPT !.t = NewTerrain(CONFIG, seed)], seed)
          IN  Install(st)
  /\ startMin' = MAX_SAFE_INTEGER
  /\ startMax' = MIN_SAFE_INTEGER
  /\ calls' = <<"destroy", "new Terrain", "create">>
  /\ UNCHANGED <<CONFIG, pc, bandVars, auxVars>>

Next == MainCreate \/ Animate \/ Gui \/ GenerateNewSeed

Spec == Init /\ [][Next]_vars

\* CONFIG.resolution is set to 0, a value outside the range of its GUI
\* controller: the next build fails in createEmptyMatrix.
SetResolutionZero ==
  /\ pc = "loop"
  /\ CONFIG.resolution # 0
  /\ CONFIG' = [CONFIG EXCEPT !.resolution = 0]
  /\ calls' = <<>>
  /\ thrown' = FALSE
  /\ UNCHANGED <<terrain, chunks, scene, libSeed, pc, startMin, startMax,
                 bandVars, auxVars>>

NextFail == MainCreate \/ Animate \/ Gui \/ GenerateNewSeed \/ SetResolutionZero

\* The program with configurations whose build fails.
SpecFail == Init /\ [][NextFail]_vars

\* The normalized heights handed to the colour choice.
Heights == {Div(n, d) : n \in 0..MaxDen, d \in 1..MaxDen} \cup {NaN}

InitBands ==
  /\ sample \in {h \in Heights : IsNaN(h) \/ InUnit(h)}
  /\ bands = NoBands
  /\ CONFIG = CHOOSE c \in Configs : c.size = 1 /\ c.octaves = 1 /\ ~c.islands
  /\ libSeed = 0
  /\ terrain = NewTerrain(CONFIG, libSeed)
  /\ chunks = <<>>
  /\ scene = {}
  /\ pc = "mesh"
  /\ thrown = FALSE
  /\ calls = <<>>
  /\ startMin = MAX_SAFE_INTEGER
  /\ startMax = MIN_SAFE_INTEGER
  /\ AuxIdle

\* The colour choice of Chunk.#createMesh and of MapGenerator.#createMesh
\* for one cell of height `sample`.
ChooseColor ==
  /\ pc = "mesh"
  /\ bands = NoBands
  /\ bands' = [chunk |-> ChunkBand(sample), map |-> MapBand(sample)]
  /\ UNCHANGED <<sample, appVars, auxVars>>

NextBands == ChooseColor

SpecBands == InitBands /\ [][NextBands]_vars

\* Code other than main() and the GUI constructs a Noise (directly or inside
\* `new Terrain(...)`) while window.terrain lives: the constructor draws a
\* seed and hands it to the noise library, whose state is global.
NewNoise ==
  /\ pc = "loop"
  /\ \E seed \in Seeds : libSeed' = seed
  /\ calls' = <<"new Noise">>
  /\ thrown' = FALSE
  /\ UNCHANGED <<CONFIG, terrain, chunks, scene, pc, startMin, startMax,
                 bandVars, auxVars>>

\* k calls of window.terrain.destroy() in a row.
RECURSIVE DestroyTimes(_, _)
DestroyTimes(st, k) == IF k = 0 THEN st ELSE DestroyTimes(Destroy(st), k - 1)

\* A client of the class calls destroy() once or twice in a row.
ApiDestroy ==
  /\ pc = "loop"
  /\ \E k \in 1..2 :
       /\ Install(DestroyTimes(State, k))
       /\ calls' = [i \in 1..k |-> "destroy"]
  /\ UNCHANGED <<CONFIG, libSeed, pc, startMin, startMax, bandVars, auxVars>>

\* The program together with the constructions of a Noise a client can make
\* between two of its handlers.
NextNoise == Next \/ NewNoise

SpecNoise == Init /\ [][NextNoise]_vars

\* The program together with the destroy() calls a client can make between
\* two of its handlers.
NextDestroy == Next \/ ApiDestroy

SpecDestroy == Init /\ [][NextDestroy]_vars

\* A call createIslandShapeGrid(islandSize) is about to run its loops.
InitIsland ==
  /\ islandSize \in 1..MaxIsland
  /\ islandGrid = <<>>
  /\ cell = NoCell
  /\ coord = NoCoord
  /\ sample = NaN
  /\ bands = NoBands
  /\ CONFIG = CHOOSE c \in Configs : c.size = 1 /\ c.octaves = 1 /\ ~c.islands
  /\ libSeed = 0
  /\ terrain = NewTerrain(CONFIG, libSeed)
  /\ chunks = <<>>
  /\ scene = {}
  /\ pc = "island"
  /\ thrown = FALSE
  /\ calls = <<>>
  /\ startMin = MAX_SAFE_INTEGER
  /\ startMax = MIN_SAFE_INTEGER

\* One iteration of the inner loop of createIslandShapeGrid.
IslandStep ==
  /\ pc = "island"
  /\ Len(islandGrid) < islandSize * islandSize
  /\ islandGrid' = Append(islandGrid,
                          IslandCell(islandSize, Len(islandGrid) \div islandSize,
                                     Len(islandGrid) % islandSize))
  /\ UNCHANGED <<islandSize, cell, coord, appVars, bandVars>>

NextIsland == IslandStep

SpecIsland == InitIsland /\ [][NextIsland]_vars

\* The cell indices of a chunk handed to the coordinate computation: the
\* first two, the middle one and the last one of 0..gridSize-1.
ProbeIndices(gridSize) ==
  {x \in {0, 1, gridSize \div 2, gridSize - 1} : 0 <= x /\ x < gridSize}

\* #getHeight is about to compute noisePosition.x for cell.x of the chunk in
\* column cell.column of a Terrain whose size, chunkSize and resolution are
\* any values the GUI controllers allow.
InitCoords ==
  /\ cell \in {c \in [size : UISizes, chunkSize : UIChunkSizes,
                       resolution : UIResolutions, column : 0..4, x : 0..1023] :
                 /\ c.column < c.size
                 /\ c.x \in ProbeIndices(GridSize(c.chunkSize, c.resolution))}
  /\ coord = NoCoord
  /\ islandSize = 0
  /\ islandGrid = <<>>
  /\ sample = NaN
  /\ bands = NoBands
  /\ CONFIG = CHOOSE c \in Configs : c.size = 1 /\ c.octaves = 1 /\ ~c.islands
  /\ libSeed = 0
  /\ terrain = NewTerrain(CONFIG, libSeed)
  /\ chunks = <<>>
  /\ scene = {}
  /\ pc = "coord"
  /\ thrown = FALSE
  /\ calls = <<>>
  /\ startMin = MAX_SAFE_INTEGER
  /\ startMax = MIN_SAFE_INTEGER

\* x * gridSize + offset.x of #getHeight, for the chunk Terrain.#create
\* builds in column cell.column.
CoordStep ==
  /\ pc = "coord"
  /\ coord = NoCoord
  /\ coord' = SampleCoord(cell, cell.x, ChunkOffset(cell, 0, cell.column).x)
  /\ UNCHANGED <<cell, islandSize, islandGrid, appVars, bandVars>>

NextCoords == CoordStep

SpecCoords == InitCoords /\ [][NextCoords]_vars

----------------------------------------------------------------------------
(* Helpers of the properties *)

Zero == [n |-> 0, d |-> 1]

Cells(chk) == {<<z, x>> : z \in DOMAIN chk.grid, x \in DOMAIN chk.grid}

\* The configuration fields of the Terrain, as a configuration object.
ConfigOf(t) == [k \in DOMAIN CONFIG |-> t[k]]

\* The chunks a Terrain of configuration `config` holds after its first
\* create() under the noise seed `seed`.
FreshBuild(config, seed) ==
  Create([t |-> NewTerrain(config, seed), chunks |-> <<>>, scene |-> {},
          thrown |-> FALSE, used |-> {}], seed).chunks

\* The latest create() of the Terrain, made again from the same min/max
\* state with the configuration `config`.
Rebuild(config) ==
  Create([t |-> [Update(terrain, config) EXCEPT !.minHeight = startMin,
                                                !.maxHeight = startMax],
          chunks |-> <<>>, scene |-> {}, thrown |-> FALSE, used |-> {}], libSeed).chunks

Built == pc = "loop" /\ ~thrown /\ chunks # <<>>

----------------------------------------------------------------------------
(* C1..C4: normalization *)

\* C1: every entry of every chunk's height grid is a number in [0, 1],
\* never NaN or infinite.
C1_HeightsInUnitInterval ==
  \A i \in DOMAIN chunks : \A c \in Cells(chunks[i]) :
    InUnit(chunks[i].grid[c[1]][c[2]])

\* C2: the first sample of a freshly constructed Terrain, where the running
\* minimum equals the running maximum, is stored as exactly 0.
C2_DegenerateRangeIsZero ==
  (Built /\ startMin = MAX_SAFE_INTEGER /\ startMax = MIN_SAFE_INTEGER)
    => chunks[1].grid[1][1] = Zero

\* C3: at the start of every create() minHeight and maxHeight hold their
\* initial sentinel values.
C3_BuildStartsFromSentinels ==
  Built => (startMin = MAX_SAFE_INTEGER /\ startMax = MIN_SAFE_INTEGER)

\* C4: under one noise seed, a build has the same height grids as any other
\* build of the same configuration, here the first build of a Terrain
\* constructed with that configuration.
C4_SameConfigSameGrids ==
  Built => Grids(chunks) = Grids(FreshBuild(ConfigOf(terrain), libSeed))

----------------------------------------------------------------------------
(* C5..C10 *)

\* C5: for horizontally (vertically) adjacent chunks, the coordinate
\* x*gridSize + offset.x of the last column (row) of the first chunk equals
\* that of the first column (row) of the second.
C5_AdjacentChunksShareBorder ==
  Built =>
    LET g == GridSize(terrain.chunkSize, terrain.resolution)
    IN  \A i, j \in DOMAIN chunks :
          /\ (/\ chunks[j].offset.z = chunks[i].offset.z
              /\ chunks[j].offset.x = chunks[i].offset.x + terrain.chunkSize)
               => SampleCoord(terrain, g - 1, chunks[i].offset.x)
                    = SampleCoord(terrain, 0, chunks[j].offset.x)
          /\ (/\ chunks[j].offset.x = chunks[i].offset.x
              /\ chunks[j].offset.z = chunks[i].offset.z + terrain.chunkSize)
               => SampleCoord(terrain, g - 1, chunks[i].offset.z)
                    = SampleCoord(terrain, 0, chunks[j].offset.z)

\* The chunks are those of the configuration `config`.
ChunksOf(chks, config) ==
  /\ Len(chks) = config.size * config.size
  /\ \A i \in DOMAIN chks :
       /\ chks[i].size = config.chunkSize
       /\ chks[i].resolution = config.resolution
       /\ chks[i].heightMultiplier = config.heightMultiplier
       /\ chks[i].islands = config.islands
       /\ chks[i].wireframe = config.wireframe
       /\ Len(chks[i].grid) = GridSize(config.chunkSize, config.resolution)

\* A step made by an animate tick: the only handler that calls hash().
AnimateStep == pc = "loop" /\ calls' # <<>> /\ calls'[1] = "hash"

\* C6: an animate tick that starts with hash() different from
\* JSON.stringify(CONFIG) calls destroy(), update(CONFIG), create() in this
\* order and ends with hash() equal to the serialized CONFIG and with the
\* chunks of the new configuration; a tick that starts with the two equal
\* rebuilds nothing.
C6_TickRebuildsOnMismatch ==
  [][AnimateStep =>
       IF Hash(terrain) # Stringify(CONFIG_KEYS, CONFIG)
         THEN /\ calls' = <<"hash", "destroy", "update", "create">>
              /\ Hash(terrain') = Stringify(CONFIG_KEYS, CONFIG')
              /\ ChunksOf(chunks', CONFIG')
              /\ MeshIds(chunks) \cap scene' = {}
         ELSE calls' = <<"hash">> /\ UNCHANGED <<terrain, chunks, scene>>]_vars

C6_Witness ==
  /\ Built
  /\ calls = <<"hash", "destroy", "update", "create">>
  /\ Hash(terrain) = Stringify(CONFIG_KEYS, CONFIG)
  /\ terrain.size = 2 /\ terrain.octaves = 2
  /\ startMin # MAX_SAFE_INTEGER

\* C7: when a build started by the animate loop fails, the chunks of the
\* previously built terrain are still held by the Terrain and still in the
\* scene.
C7_FailedBuildKeepsPrevious ==
  [][(AnimateStep /\ chunks # <<>> /\ thrown')
       => (chunks' = chunks /\ MeshIds(chunks) \subseteq scene')]_vars

\* The running minima (maxima) of a sequence of raw heights, starting from
\* `lo` (`hi`): element m is the least (greatest) of lo (hi) and the first
\* m elements.
RECURSIVE RunningMin(_, _, _)
RunningMin(raw, lo, acc) ==
  IF Len(acc) = Len(raw) THEN acc
  ELSE LET v == Min2(lo, raw[Len(acc) + 1]) IN RunningMin(raw, v, Append(acc, v))

RECURSIVE RunningMax(_, _, _)
RunningMax(raw, hi, acc) ==
  IF Len(acc) = Len(raw) THEN acc
  ELSE LET v == Max2(hi, raw[Len(acc) + 1]) IN RunningMax(raw, v, Append(acc, v))

\* C8: create() on an empty Terrain builds size*size chunks in row-major
\* order, the chunk at index z*size + x having offset (x*chunkSize,
\* z*chunkSize), and every stored height is normalized against the minimum
\* and maximum of the raw heights sampled so far, in the order chunk by
\* chunk, row by row, column by column.
C8_RowMajorThreadedBuild ==
  Built =>
    LET size == terrain.size
        g == GridSize(terrain.chunkSize, terrain.resolution)
        n == Len(chunks) * g * g
        cz(m) == (m % (g * g)) \div g
        cx(m) == (m % (g * g)) % g
        ci(m) == m \div (g * g) + 1
    IN  /\ Len(chunks) = size * size
        /\ \A z, x \in 0..(size - 1) :
             chunks[z * size + x + 1].offset =
               [x |-> x * terrain.chunkSize, z |-> z * terrain.chunkSize]
        /\ \A raw \in {[k \in 1..n |-> RawHeight(terrain, libSeed, cx(k - 1), cz(k - 1),
                                                 chunks[ci(k - 1)].offset)]} :
           \A lo \in {RunningMin(raw, startMin, <<>>)} :
           \A hi \in {RunningMax(raw, startMax, <<>>)} :
             /\ \A m \in 0..(n - 1) :
                  chunks[ci(m)].grid[cz(m) + 1][cx(m) + 1]
                    = inverseLerp(lo[m + 1], hi[m + 1], raw[m + 1])
             /\ terrain.minHeight = lo[n]
             /\ terrain.maxHeight = hi[n]

C8_Witness ==
  /\ Built
  /\ terrain.size = 2
  /\ Len(chunks) = 4
  /\ chunks[2].offset = [z |-> 0, x |-> terrain.chunkSize]
  /\ chunks[3].offset = [z |-> terrain.chunkSize, x |-> 0]
  /\ startMin = MAX_SAFE_INTEGER
  /\ IsFinite(chunks[2].grid[1][1])

\* C9: a build with islands = true differs from the same build with
\* islands = false, the falloff mask being subtracted from the raw heights.
C9_IslandsChangeHeights ==
  (Built /\ terrain.islands)
    => Grids(chunks) # Grids(Rebuild([ConfigOf(terrain) EXCEPT !.islands = FALSE]))

BandNames == {"water", "sand", "grass", "rock", "snow"}

\* p1/q1 <= h < p2/q2 for a height h in [0, 1]
Between(h, p1, q1, p2, q2) == p1 * h.d <= h.n * q1 /\ h.n * q2 < p2 * h.d

\* The band table: lower bound closed, upper bound open.
InBand(h, b) ==
  CASE b = "water" -> Between(h, 0, 1, 45, 100)
    [] b = "sand"  -> Between(h, 45, 100, 5, 10)
    [] b = "grass" -> Between(h, 5, 10, 7, 10)
    [] b = "rock"  -> Between(h, 7, 10, 9, 10)
    [] b = "snow"  -> Between(h, 9, 10, 2, 1)

\* C10: for a height in [0, 1] the mesh builders choose the band whose
\* lower-closed interval holds it: [0, .45) water, [.45, .5) sand, [.5, .7)
\* grass, [.7, .9) rock, [.9, 1] snow; exactly one band, and .45 is sand.
C10_BandsLowerClosed ==
  (bands # NoBands /\ InUnit(sample)) =>
    /\ bands.chunk \in BandNames /\ bands.map \in BandNames
    /\ \A b \in BandNames :
         /\ (bands.chunk = b) <=> InBand(sample, b)
         /\ (bands.map = b) <=> InBand(sample, b)

C10_Witness ==
  /\ sample = [n |-> 9, d |-> 20]
  /\ bands = [chunk |-> "sand", map |-> "sand"]

----------------------------------------------------------------------------
(* C11..C16 *)

\* an/ad <= bn/bd for non-negative fractions with positive denominators,
\* by comparing the continued fractions (no product is formed, so no integer
\* of the comparison exceeds its operands).
RECURSIVE LeqBy(_, _, _, _)
LeqBy(an, ad, bn, bd) ==
  IF an \div ad # bn \div bd THEN an \div ad < bn \div bd
  ELSE IF an % ad = 0 THEN TRUE
  ELSE IF bn % bd = 0 THEN FALSE
  ELSE LeqBy(bd, bn % bd, ad, an % ad)

FracLeq(a, b) == LeqBy(a.n, a.d, b.n, b.d)

\* a <= b for two cells of one falloff grid
CellLeq(a, b) ==
  IF a.n = b.n /\ a.d = b.d
    THEN LET K == Max2(a.k, b.k) IN a.a * Pow2(K - a.k) <= b.a * Pow2(K - b.k)
  ELSE FracLeq(a, b)

IslandAt(i, j) == islandGrid[i * islandSize + j + 1]

\* max(|x|, |y|) for the exact x = i/n*2 - 1, y = j/n*2 - 1, times n
Chebyshev(n, i, j) == Max2(Abs(2 * i - n), Abs(2 * j - n))

\* C11: the grid returned by createIslandShapeGrid(n) is non-decreasing in
\* the Chebyshev distance of the cell from the center and invariant under
\* the symmetries of the square: grid[i][j] = grid[j][i] = grid[n-1-i][j]
\* = grid[i][n-1-j].
C11_FalloffMonotoneSymmetric ==
  (pc = "island" /\ Len(islandGrid) = islandSize * islandSize) =>
    LET n == islandSize
        I == 0..(n - 1)
    IN  /\ \A i, j, k, l \in I :
             Chebyshev(n, i, j) <= Chebyshev(n, k, l)
               => CellLeq(IslandAt(i, j), IslandAt(k, l))
        /\ \A i, j \in I :
             /\ IslandAt(i, j) = IslandAt(j, i)
             /\ IslandAt(i, j) = IslandAt(n - 1 - i, j)
             /\ IslandAt(i, j) = IslandAt(i, n - 1 - j)

\* The latest create() of the Terrain, made again from the same min/max
\* state with the noise field of the Terrain's own seed.
OwnSeedBuild ==
  Create([t |-> [terrain EXCEPT !.minHeight = startMin, !.maxHeight = startMax],
          chunks |-> <<>>, scene |-> {}, thrown |-> FALSE, used |-> {}],
         terrain.seed).chunks

\* C12: a Terrain samples the noise field of its own seed for its whole
\* life, also after another Terrain or Noise has been constructed in
\* between: the heights it holds are those of the field of terrain.seed.
C12_SamplesOwnSeed ==
  Built => \A own \in {OwnSeedBuild} : Grids(chunks) = Grids(own)

DestroyStep == calls' # <<>> /\ \A i \in DOMAIN calls' : calls'[i] = "destroy"

\* C13: destroy() removes the mesh of every chunk from the scene and leaves
\* chunks empty; a second destroy() changes nothing more.
C13_DestroyEmptiesAndIsIdempotent ==
  [][DestroyStep =>
       /\ chunks' = <<>>
       /\ scene' = scene \ MeshIds(chunks)
       /\ MeshIds(chunks) \cap scene' = {}
       /\ UNCHANGED <<terrain, CONFIG>>
       /\ Destroy(State)' = State']_vars

C13_Witness ==
  /\ pc = "loop"
  /\ calls = <<"destroy", "destroy">>
  /\ chunks = <<>>
  /\ scene = {}
  /\ terrain.size = 2
  /\ terrain.minHeight # MAX_SAFE_INTEGER

\* The #getHeight calls of the latest create(), in call order, made again
\* from the Terrain `t`: element k holds the raw height of call k and
\* minHeight, maxHeight after it.
RECURSIVE HeightTrace(_, _, _)
HeightTrace(t, n, acc) ==
  IF Len(acc) = n THEN acc
  ELSE LET g == GridSize(t.chunkSize, t.resolution)
           m == Len(acc)
           off == chunks[m \div (g * g) + 1].offset
           x == (m % (g * g)) % g
           z == (m % (g * g)) \div g
           r == GetHeight(t, libSeed, x, z, off)
       IN  HeightTrace(r.t, n,
                       Append(acc, [raw |-> RawHeight(t, libSeed, x, z, off),
                                    min |-> r.t.minHeight, max |-> r.t.maxHeight]))

\* C14: across the successive #getHeight calls on one Terrain minHeight
\* never increases and maxHeight never decreases, and after each call
\* minHeight <= raw <= maxHeight for the raw height of that call and of
\* every earlier one.
C14_RangeOnlyWidens ==
  /\ terrain.minHeight <= startMin
  /\ terrain.maxHeight >= startMax
  /\ Built =>
       LET g == GridSize(terrain.chunkSize, terrain.resolution)
           n == Len(chunks) * g * g
       IN  \A tr \in {HeightTrace([terrain EXCEPT !.minHeight = startMin,
                                                  !.maxHeight = startMax], n, <<>>)} :
             /\ tr[n].min = terrain.minHeight
             /\ tr[n].max = terrain.maxHeight
             /\ \A k \in 1..n :
                  /\ tr[k].min <= (IF k = 1 THEN startMin ELSE tr[k - 1].min)
                  /\ tr[k].max >= (IF k = 1 THEN startMax ELSE tr[k - 1].max)
                  /\ \A j \in 1..k : tr[k].min <= tr[j].raw /\ tr[j].raw <= tr[k].max

C14_Witness ==
  /\ Built
  /\ startMin # MAX_SAFE_INTEGER
  /\ terrain.maxHeight > startMax
  /\ terrain.minHeight < terrain.maxHeight
  /\ Len(chunks) = 4

\* C15: for every configuration the GUI allows and every cell of a chunk,
\* x * gridSize + offset.x lies in [offset.x, offset.x + chunkSize), so the
\* noise position lies in [0, 1) and no cell of a chunk samples inside
\* another chunk.
C15_SampleInsideChunk ==
  coord # NoCoord =>
    LET offsetX == ChunkOffset(cell, 0, cell.column).x
    IN  /\ offsetX <= coord
        /\ coord < offsetX + cell.chunkSize
        /\ 0 <= coord
        /\ coord < cell.size * cell.chunkSize

\* C16: after the initial build and any sequence of animate ticks, CONFIG
\* edits and 'Generate new seed' presses, window.terrain.chunks holds
\* exactly size * size chunks for the Terrain's current size, and the
\* meshes in the scene are exactly the meshes of those chunks, one each.
C16_SceneIsCurrentChunks ==
  pc = "loop" =>
    /\ Len(chunks) = terrain.size * terrain.size
    /\ scene = MeshIds(chunks)
    /\ Cardinality(scene) = Len(chunks)

C16_Witness ==
  /\ pc = "loop"
  /\ calls = <<"destroy", "new Terrain", "create">>
  /\ terrain.size = 1
  /\ Len(chunks) = 1
  /\ scene = {chunks[1].mesh.id}
  /\ chunks[1].mesh.id[1] = 1
  /\ CONFIG.size = 1

====
